---- MODULE Spec2Model ----
(***************************************************************************)
(* Model of the PistonDevelopers/texture crate:                            *)
(*   - src/ops.rs : flip_vertical and alpha_to_rgba8, pure functions over  *)
(*     flat byte buffers.  Vec / slice indexing is bounds checked, so an   *)
(*     index outside the buffer ends the call in a panic.                  *)
(*   - src/lib.rs : TextureSettings with its getters, in-place setters and *)
(*     by-value builders.                                                  *)
(* Spec         drives the two buffer transforms on inputs drawn by Init.  *)
(* SettingsSpec drives the setters and builders from TextureSettings::new. *)
(***************************************************************************)
EXTENDS Integers, Sequences, FiniteSets, TLC

VARIABLES memory, size, channels, op, outcome, res, settings, lastCall

vars == <<memory, size, channels, op, outcome, res, settings, lastCall>>

opsVars == <<memory, size, channels, op, outcome, res>>

(* ------------------------------ bounds --------------------------------- *)

MaxWidth == 2

MaxHeight == 2

MaxChannels == 4

MaxLen == 5

MaxByte == 1

Bytes == 0..MaxByte

BoundedSeq(S, n) == UNION {[1..k -> S] : k \in 0..n}

(* ------------------------------ ops.rs --------------------------------- *)

\* A call either returns a buffer or unwinds with a panic and returns nothing.
Returned(buf) == [outcome |-> "ok", res |-> buf]

Panicked == [outcome |-> "panic", res |-> <<>>]

\* vec![0; n]
ZeroVec(n) == [i \in 1..n |-> 0]

\* Length of the vector flip_vertical allocates for its result.
FlipResLen(width, height, chans) == width * height

\* Index read from `memory` in the loop body of flip_vertical (0-based).
FlipSrcIndex(x, y, c, width, height, chans) ==
    c + x * chans + y * (width * chans)

\* Index written in `res` in the loop body of flip_vertical (0-based).
FlipDstIndex(x, y, c, width, height, chans) ==
    c + x * chans + (height - 1 - y) * (width * chans)

\* The nested loops `for y { for x { for c { res[dst] = memory[src] } } }`,
\* iteration k of width*height*chans in loop order.  The right-hand side
\* memory[src] is evaluated first, then the indexed store.
RECURSIVE FlipLoop(_, _, _, _, _, _)
FlipLoop(mem, width, height, chans, out, k) ==
    IF k >= height * width * chans
    THEN Returned(out)
    ELSE LET y == k \div (width * chans)
             x == (k % (width * chans)) \div chans
             c == k % chans
             src == FlipSrcIndex(x, y, c, width, height, chans)
             dst == FlipDstIndex(x, y, c, width, height, chans)
         IN  IF src >= Len(mem) THEN Panicked
             ELSE IF dst >= Len(out) THEN Panicked
             ELSE FlipLoop(mem, width, height, chans,
                           [out EXCEPT ![dst + 1] = mem[src + 1]], k + 1)

flip_vertical(mem, sz, chans) ==
    FlipLoop(mem, sz[1], sz[2], chans,
             ZeroVec(FlipResLen(sz[1], sz[2], chans)), 0)

\* The same index with the row stride taken from the other dimension.
AlphaSrcIndexTransposed(x, y, width, height) == x + y * height

\* Index read from `memory` in the loop body of alpha_to_rgba8 (0-based).
AlphaSrcIndex(x, y, width, height) == x + y * width

\* The nested loops of alpha_to_rgba8, iteration k of width*height.
RECURSIVE AlphaLoop(_, _, _, _, _)
AlphaLoop(mem, width, height, out, k) ==
    IF k >= height * width
    THEN Returned(out)
    ELSE LET y == k \div width
             x == k % width
             src == AlphaSrcIndex(x, y, width, height)
         IN  IF src >= Len(mem) THEN Panicked
             ELSE AlphaLoop(mem, width, height,
                            out \o <<255, 255, 255, mem[src + 1]>>, k + 1)

alpha_to_rgba8(mem, sz) == AlphaLoop(mem, sz[1], sz[2], <<>>, 0)

(* ------------------------------ lib.rs --------------------------------- *)

Filter == {"Linear", "Nearest"}

Wrap == {"Repeat", "MirroredRepeat", "ClampToEdge", "ClampToBorder"}

\* [f32; 4] values used as border colours.
BorderColors == {<<0, 0, 0, 1>>, <<1, 1, 1, 1>>}

new ==
    [convert_gamma |-> FALSE,
     compress |-> FALSE,
     generate_mipmap |-> FALSE,
     min |-> "Linear",
     mag |-> "Linear",
     mipmap |-> "Linear",
     wrap_u |-> "ClampToEdge",
     wrap_v |-> "ClampToEdge",
     border_color |-> <<0, 0, 0, 1>>]

TextureSettings ==
    [convert_gamma : BOOLEAN, compress : BOOLEAN, generate_mipmap : BOOLEAN,
     min : Filter, mag : Filter, mipmap : Filter,
     wrap_u : Wrap, wrap_v : Wrap, border_color : BorderColors]

get_convert_gamma(s) == s.convert_gamma
set_convert_gamma(s, val) == [s EXCEPT !.convert_gamma = val]
convert_gamma(s, val) == set_convert_gamma(s, val)

get_compress(s) == s.compress
set_compress(s, val) == [s EXCEPT !.compress = val]
compress(s, val) == set_compress(s, val)

get_generate_mipmap(s) == s.generate_mipmap
set_generate_mipmap(s, val) == [s EXCEPT !.generate_mipmap = val]
generate_mipmap(s, val) == set_generate_mipmap(s, val)

get_min(s) == s.min
set_min(s, val) == [s EXCEPT !.min = val]
min(s, val) == set_min(s, val)

get_mag(s) == s.mag
set_mag(s, val) == [s EXCEPT !.mag = val]
mag(s, val) == set_mag(s, val)

get_mipmap(s) == s.mipmap
set_mipmap(s, val) == [set_generate_mipmap(s, TRUE) EXCEPT !.mag = val]
mipmap(s, val) == set_mag(s, val)

get_filter(s) == <<s.min, s.mag>>
set_filter(s, val) == set_mag(set_min(s, val), val)
filter(s, val) == set_filter(s, val)

get_wrap_u(s) == s.wrap_u
set_wrap_u(s, val) == [s EXCEPT !.wrap_u = val]
wrap_u(s, val) == set_wrap_u(s, val)

get_wrap_v(s) == s.wrap_v
set_wrap_v(s, val) == [s EXCEPT !.wrap_v = val]
wrap_v(s, val) == set_wrap_v(s, val)

get_border_color(s) == s.border_color
set_border_color(s, val) == [s EXCEPT !.border_color = val]
border_color(s, val) == set_border_color(s, val)

(* --------------------------- Spec: ops.rs ------------------------------ *)

Init ==
    /\ memory \in BoundedSeq(Bytes, MaxLen)
    /\ size \in (0..MaxWidth) \X (0..MaxHeight)
    /\ channels \in 0..MaxChannels
    /\ op = "none"
    /\ outcome = "none"
    /\ res = <<>>
    /\ settings = new
    /\ lastCall = <<"new">>

CallFlipVertical ==
    /\ op = "none"
    /\ op' = "flip_vertical"
    /\ outcome' = flip_vertical(memory, size, channels).outcome
    /\ res' = flip_vertical(memory, size, channels).res
    /\ UNCHANGED <<memory, size, channels, settings, lastCall>>

CallAlphaToRgba8 ==
    /\ op = "none"
    /\ op' = "alpha_to_rgba8"
    /\ outcome' = alpha_to_rgba8(memory, size).outcome
    /\ res' = alpha_to_rgba8(memory, size).res
    /\ UNCHANGED <<memory, size, channels, settings, lastCall>>

Next == CallFlipVertical \/ CallAlphaToRgba8

Spec == Init /\ [][Next]_vars

(* ----------------------- SettingsSpec: lib.rs -------------------------- *)

SettingsInit ==
    /\ settings = new
    /\ lastCall = <<"new">>
    /\ memory = <<>>
    /\ size = <<0, 0>>
    /\ channels = 1
    /\ op = "none"
    /\ outcome = "none"
    /\ res = <<>>

SetConvertGamma ==
    \E val \in BOOLEAN :
        /\ settings' = set_convert_gamma(settings, val)
        /\ lastCall' = <<"set_convert_gamma", val>>
        /\ UNCHANGED opsVars

BuildConvertGamma ==
    \E val \in BOOLEAN :
        /\ settings' = convert_gamma(settings, val)
        /\ lastCall' = <<"convert_gamma", val>>
        /\ UNCHANGED opsVars

SetCompress ==
    \E val \in BOOLEAN :
        /\ settings' = set_compress(settings, val)
        /\ lastCall' = <<"set_compress", val>>
        /\ UNCHANGED opsVars

BuildCompress ==
    \E val \in BOOLEAN :
        /\ settings' = compress(settings, val)
        /\ lastCall' = <<"compress", val>>
        /\ UNCHANGED opsVars

SetGenerateMipmap ==
    \E val \in BOOLEAN :
        /\ settings' = set_generate_mipmap(settings, val)
        /\ lastCall' = <<"set_generate_mipmap", val>>
        /\ UNCHANGED opsVars

BuildGenerateMipmap ==
    \E val \in BOOLEAN :
        /\ settings' = generate_mipmap(settings, val)
        /\ lastCall' = <<"generate_mipmap", val>>
        /\ UNCHANGED opsVars

SetMin ==
    \E val \in Filter :
        /\ settings' = set_min(settings, val)
        /\ lastCall' = <<"set_min", val>>
        /\ UNCHANGED opsVars

BuildMin ==
    \E val \in Filter :
        /\ settings' = min(settings, val)
        /\ lastCall' = <<"min", val>>
        /\ UNCHANGED opsVars

SetMag ==
    \E val \in Filter :
        /\ settings' = set_mag(settings, val)
        /\ lastCall' = <<"set_mag", val>>
        /\ UNCHANGED opsVars

BuildMag ==
    \E val \in Filter :
        /\ settings' = mag(settings, val)
        /\ lastCall' = <<"mag", val>>
        /\ UNCHANGED opsVars

SetMipmap ==
    \E val \in Filter :
        /\ settings' = set_mipmap(settings, val)
        /\ lastCall' = <<"set_mipmap", val>>
        /\ UNCHANGED opsVars

BuildMipmap ==
    \E val \in Filter :
        /\ settings' = mipmap(settings, val)
        /\ lastCall' = <<"mipmap", val>>
        /\ UNCHANGED opsVars

SetFilter ==
    \E val \in Filter :
        /\ settings' = set_filter(settings, val)
        /\ lastCall' = <<"set_filter", val>>
        /\ UNCHANGED opsVars

BuildFilter ==
    \E val \in Filter :
        /\ settings' = filter(settings, val)
        /\ lastCall' = <<"filter", val>>
        /\ UNCHANGED opsVars

SetWrapU ==
    \E val \in Wrap :
        /\ settings' = set_wrap_u(settings, val)
        /\ lastCall' = <<"set_wrap_u", val>>
        /\ UNCHANGED opsVars

BuildWrapU ==
    \E val \in Wrap :
        /\ settings' = wrap_u(settings, val)
        /\ lastCall' = <<"wrap_u", val>>
        /\ UNCHANGED opsVars

SetWrapV ==
    \E val \in Wrap :
        /\ settings' = set_wrap_v(settings, val)
        /\ lastCall' = <<"set_wrap_v", val>>
        /\ UNCHANGED opsVars

BuildWrapV ==
    \E val \in Wrap :
        /\ settings' = wrap_v(settings, val)
        /\ lastCall' = <<"wrap_v", val>>
        /\ UNCHANGED opsVars

SetBorderColor ==
    \E val \in BorderColors :
        /\ settings' = set_border_color(settings, val)
        /\ lastCall' = <<"set_border_color", val>>
        /\ UNCHANGED opsVars

BuildBorderColor ==
    \E val \in BorderColors :
        /\ settings' = border_color(settings, val)
        /\ lastCall' = <<"border_color", val>>
        /\ UNCHANGED opsVars

SettingsNext ==
    \/ SetConvertGamma
    \/ BuildConvertGamma
    \/ SetCompress
    \/ BuildCompress
    \/ SetGenerateMipmap
    \/ BuildGenerateMipmap
    \/ SetMin
    \/ BuildMin
    \/ SetMag
    \/ BuildMag
    \/ SetMipmap
    \/ BuildMipmap
    \/ SetFilter
    \/ BuildFilter
    \/ SetWrapU
    \/ BuildWrapU
    \/ SetWrapV
    \/ BuildWrapV
    \/ SetBorderColor
    \/ BuildBorderColor

SettingsSpec == SettingsInit /\ [][SettingsNext]_vars

(* ---------------------------- properties ------------------------------- *)

Width == size[1]

Height == size[2]

\* The precondition of flip_vertical: channels >= 1 and a buffer of
\* width*height*channels bytes.
WellFormedFlip == channels >= 1 /\ Len(memory) = Width * Height * channels

\* The precondition of alpha_to_rgba8: a buffer of width*height bytes.
WellFormedAlpha == Len(memory) = Width * Height

\* C1: on a well-formed input flip_vertical returns a buffer whose row y
\* equals, byte for byte, row height-1-y of the input.
C1_FlipRowContent ==
    (op = "flip_vertical" /\ WellFormedFlip) =>
        /\ outcome = "ok"
        /\ Len(res) >= Width * Height * channels
        /\ \A y \in 0..(Height - 1) : \A i \in 0..(Width * channels - 1) :
              res[y * Width * channels + i + 1]
                  = memory[(Height - 1 - y) * Width * channels + i + 1]

\* C2: on a well-formed input flip_vertical returns a buffer as long as
\* the input buffer.
C2_FlipPreservesLength ==
    (op = "flip_vertical" /\ WellFormedFlip) =>
        (outcome = "ok" /\ Len(res) = Len(memory))

\* C3: on a well-formed input, flipping the result of flip_vertical again
\* returns the original buffer.
C3_FlipInvolution ==
    (op = "flip_vertical" /\ WellFormedFlip) =>
        /\ outcome = "ok"
        /\ flip_vertical(res, size, channels) = Returned(memory)

\* C4: on a well-formed input with a single row or with zero area,
\* flip_vertical returns a buffer equal to the input.
C4_FlipNoOp ==
    (op = "flip_vertical" /\ WellFormedFlip
        /\ (Height = 1 \/ Width = 0 \/ Height = 0)) =>
        (outcome = "ok" /\ res = memory)

\* C5: on a buffer of width*height bytes alpha_to_rgba8 returns 4 times as
\* many bytes, and the four bytes of pixel (x, y) are 255, 255, 255 and the
\* input byte of pixel (x, y).
C5_ExpandCorrect ==
    (op = "alpha_to_rgba8" /\ WellFormedAlpha) =>
        /\ outcome = "ok"
        /\ Len(res) = 4 * Len(memory)
        /\ \A x \in 0..(Width - 1) : \A y \in 0..(Height - 1) :
              LET o == 4 * (x + y * Width)
              IN  /\ res[o + 1] = 255
                  /\ res[o + 2] = 255
                  /\ res[o + 3] = 255
                  /\ res[o + 4] = memory[x + y * Width + 1]

\* A 2x2 alpha image with two different bytes has been expanded.
C5_Witness ==
    /\ op = "alpha_to_rgba8"
    /\ size = <<2, 2>>
    /\ Len(memory) = 4
    /\ memory[2] # memory[3]
    /\ outcome = "ok"
    /\ Len(res) = 16

\* C6: on a single-channel buffer of width*height bytes, expanding and then
\* flipping with 4 channels, and flipping with 1 channel and then
\* expanding, both return, and return equal buffers.
C6_FlipExpandCommute ==
    (op = "alpha_to_rgba8" /\ WellFormedAlpha) =>
        /\ outcome = "ok"
        /\ flip_vertical(res, size, 4).outcome = "ok"
        /\ flip_vertical(memory, size, 1).outcome = "ok"
        /\ alpha_to_rgba8(flip_vertical(memory, size, 1).res, size).outcome
              = "ok"
        /\ flip_vertical(res, size, 4)
              = alpha_to_rgba8(flip_vertical(memory, size, 1).res, size)

\* C7: a call of either transform with a buffer whose length does not match
\* the geometry ends in an InvalidBufferSize error: no panic, no result.
C7_SizeMismatchRejected ==
    /\ (op = "flip_vertical" /\ Len(memory) # Width * Height * channels) =>
          (outcome = "InvalidBufferSize" /\ res = <<>>)
    /\ (op = "alpha_to_rgba8" /\ Len(memory) # Width * Height) =>
          (outcome = "InvalidBufferSize" /\ res = <<>>)

\* C8: after set_mipmap(val) or the builder mipmap(val), on any settings,
\* get_generate_mipmap() returns true.
C8_MipmapEnablesGeneration ==
    lastCall[1] \in {"set_mipmap", "mipmap"} => get_generate_mipmap(settings)

\* C9: on a well-formed input every index flip_vertical reads from the
\* input and every index it writes to the result lies inside the buffer as
\* allocated, and the call returns.
C9_FlipIndicesInBounds ==
    (op = "flip_vertical" /\ WellFormedFlip) =>
        /\ outcome = "ok"
        /\ \A x \in 0..(Width - 1) : \A y \in 0..(Height - 1) :
              \A c \in 0..(channels - 1) :
                /\ FlipSrcIndex(x, y, c, Width, Height, channels)
                      < Len(memory)
                /\ FlipDstIndex(x, y, c, Width, Height, channels)
                      < FlipResLen(Width, Height, channels)

\* The effect the setters are claimed to have: each writes its own field
\* only, set_filter writes min and mag, set_mipmap writes the mipmap filter
\* and sets generate_mipmap.
ClaimedSetterEffect(s, call) ==
    CASE call[1] = "set_convert_gamma" -> [s EXCEPT !.convert_gamma = call[2]]
      [] call[1] = "set_compress" -> [s EXCEPT !.compress = call[2]]
      [] call[1] = "set_generate_mipmap" ->
             [s EXCEPT !.generate_mipmap = call[2]]
      [] call[1] = "set_min" -> [s EXCEPT !.min = call[2]]
      [] call[1] = "set_mag" -> [s EXCEPT !.mag = call[2]]
      [] call[1] = "set_mipmap" ->
             [s EXCEPT !.mipmap = call[2], !.generate_mipmap = TRUE]
      [] call[1] = "set_filter" -> [s EXCEPT !.min = call[2], !.mag = call[2]]
      [] call[1] = "set_wrap_u" -> [s EXCEPT !.wrap_u = call[2]]
      [] call[1] = "set_wrap_v" -> [s EXCEPT !.wrap_v = call[2]]
      [] call[1] = "set_border_color" -> [s EXCEPT !.border_color = call[2]]
      [] OTHER -> s

SetterNames ==
    {"set_convert_gamma", "set_compress", "set_generate_mipmap", "set_min",
     "set_mag", "set_mipmap", "set_filter", "set_wrap_u", "set_wrap_v",
     "set_border_color"}

\* C10: every setter call changes exactly the fields it targets, so every
\* getter returns the argument of the latest setter of its field; in
\* particular set_mipmap(val) makes get_mipmap() return val and leaves
\* get_mag() unchanged.
C10_SettersWriteOwnField ==
    [][lastCall'[1] \in SetterNames =>
          /\ settings' = ClaimedSetterEffect(settings, lastCall')
          /\ (lastCall'[1] = "set_mipmap" =>
                 /\ get_mipmap(settings') = lastCall'[2]
                 /\ get_mag(settings') = get_mag(settings))]_vars

====
